---- MODULE Spec2Model ----
(***************************************************************************)
(* Verification model of adikuma/getsolar-demo: the RAG retrieval engine   *)
(* (ai-chatbot/src/rag), the chatbot tools (mail, crm) and the SWE agent   *)
(* (swe-agent/agent/tools.py, agent/core.py, main.py).                     *)
(***************************************************************************)
EXTENDS Integers, Sequences, FiniteSets, TLC

VARIABLES
    program,        \* the part of the repository this run exercises
    \* ---- rag/main.py module globals and the persisted vector store ----
    documents,      \* _documents: "None" or "loaded"
    vectorStore,    \* _vector_store: "None" or "store"
    retriever,      \* _retriever: "None" or "ensemble"
    persistDir,     \* PERSIST_DIR exists and is non-empty
    persistCopies,  \* how many times the corpus was added to the persisted collection
    lastCall,       \* outcome of the last get_context / rag call
    pinned,         \* an earlier get_context call kept for comparison
    \* ---- swe-agent/agent/tools.py: safe_shell_execute ----
    shellCmd,       \* the command argument, as the pieces of its text
    shellCall,      \* the call's result and the programs the shell started
    \* ---- swe-agent/agent/tools.py: enhanced_python_repl ----
    replCode,       \* the code argument, as the pieces of its text
    replCall,       \* the call's result and how often repl.run was called
    \* ---- ai-voice-agent.py ----
    voicePc,        \* where main() stands
    voiceTurns,     \* turns of the while loop completed
    stopSet,        \* stop_event of the running record_audio call is set
    lsnWaiting,     \* ENTER-listener threads blocked in input()
    lsnLingering,   \* ENTER-listener threads that set their event and have not returned yet
    voiceCall,      \* the last third-party call of the loop and where the graph ran
    \* ---- swe-agent/main.py and agent/core.py ----
    swePc,          \* where SWEAgentCLI.run stands
    thread_id,      \* SWEAgentCLI.thread_id
    usedIds,        \* thread ids drawn so far
    prevThread,     \* thread_id before the last /reset, -1 before any
    resetAt,        \* number of agent requests made before the last /reset
    reqCount,       \* agent requests made so far
    pending,        \* the request the worker thread is processing
    sweWorker,      \* the asyncio.to_thread worker: "none", "running", "finished"
    sweHistory,     \* MemorySaver: thread id -> messages
    debug_mode,     \* Config.debug_mode
    \* ---- swe-agent/agent/tools.py: filter_messages_for_openai ----
    filterIn,       \* the messages argument
    filterOut,      \* the returned list, "pending" before the call
    \* ---- ai-chatbot/src/mail/main.py: send_consultation_confirmation ----
    outbox,         \* addresses the SMTP server accepted a message for
    smtpSessions,   \* SMTP connections opened so far
    mailCall,       \* the last call: its inputs and its result
    \* ---- ai-chatbot/src/crm/main.py ----
    leads,          \* the rows of the leads table, in insertion order
    crmCall,        \* the last save_lead_to_crm call: inputs, result, the table before
    \* ---- ai-chatbot/src/ai-chatbot.py: call_model ----
    chatMessages,   \* state["messages"] of the thread's checkpoint
    chatCall,       \* the last run of the conversation node
    chatSummary,    \* state["summary"], "unset" until a summary is written
    chatActive,     \* the nodes of the superstep in progress; {} between turns
    chatRan,        \* the nodes of that superstep that have returned
    chatWrites,     \* what they returned: messages to add and to remove, the
                    \* summary, the nodes their edges lead to
    chatSteps,      \* the supersteps completed in the turn in progress
    chatTurns       \* user turns so far

ragVars == <<documents, vectorStore, retriever, persistDir, persistCopies, lastCall, pinned>>
shellVars == <<shellCmd, shellCall>>
replVars == <<replCode, replCall>>
voiceVars == <<voicePc, voiceTurns, stopSet, lsnWaiting, lsnLingering, voiceCall>>
sweVars == <<swePc, thread_id, usedIds, prevThread, resetAt, reqCount, pending, sweWorker,
             sweHistory, debug_mode>>
filterVars == <<filterIn, filterOut>>
mailVars == <<outbox, smtpSessions, mailCall>>
crmVars == <<leads, crmCall>>
chatVars == <<chatMessages, chatCall, chatSummary, chatActive, chatRan, chatWrites, chatSteps,
              chatTurns>>

(***************************************************************************)
(* Each part of the repository runs on its own: an action of one part      *)
(* leaves the state of the others alone.                                   *)
(***************************************************************************)
RagFrame ==
    /\ program = "rag"
    /\ UNCHANGED <<program, shellVars, replVars, voiceVars, sweVars, filterVars,
                   mailVars, crmVars, chatVars>>
ShellFrame ==
    /\ program = "shell"
    /\ UNCHANGED <<program, ragVars, replVars, voiceVars, sweVars, filterVars,
                   mailVars, crmVars, chatVars>>
ReplFrame ==
    /\ program = "repl"
    /\ UNCHANGED <<program, ragVars, shellVars, voiceVars, sweVars, filterVars,
                   mailVars, crmVars, chatVars>>
VoiceFrame ==
    /\ program = "voice"
    /\ UNCHANGED <<program, ragVars, shellVars, replVars, sweVars, filterVars,
                   mailVars, crmVars, chatVars>>
SweFrame ==
    /\ program = "swe"
    /\ UNCHANGED <<program, ragVars, shellVars, replVars, voiceVars, filterVars,
                   mailVars, crmVars, chatVars>>
FilterFrame ==
    /\ program = "filter"
    /\ UNCHANGED <<program, ragVars, shellVars, replVars, voiceVars, sweVars, mailVars,
                   crmVars, chatVars>>
MailFrame ==
    /\ program = "mail"
    /\ UNCHANGED <<program, ragVars, shellVars, replVars, voiceVars, sweVars,
                   filterVars, crmVars, chatVars>>
CrmFrame ==
    /\ program = "crm"
    /\ UNCHANGED <<program, ragVars, shellVars, replVars, voiceVars, sweVars,
                   filterVars, mailVars, chatVars>>
ChatFrame ==
    /\ program = "chat"
    /\ UNCHANGED <<program, ragVars, shellVars, replVars, voiceVars, sweVars,
                   filterVars, mailVars, crmVars>>

(***************************************************************************)
(* Bounds                                                                  *)
(***************************************************************************)
NumDocs == 11
MaxOffset == 1
MaxCmdLen == 4
MaxCodeLen == 3
MaxTurns == 2
MaxRequests == 3
MaxResets == 2
MaxMsgs == 4
MaxMails == 2
MaxLeads == 2
MaxChat == 7
MaxUserTurns == 2

(***************************************************************************)
(* rag/config.py                                                           *)
(***************************************************************************)
FAISS_K == 5
BM25_K == 5
\* ENSEMBLE_WEIGHTS = [0.8, 0.2], in tenths
ENSEMBLE_WEIGHTS == <<8, 2>>
\* EnsembleRetriever's default rank constant c
RRF_C == 60
\* lcm of RRF_C + 1 .. RRF_C + 5, so that every reciprocal rank is an integer
RrfScale == 61 * 31 * 63 * 64 * 65

Min(a, b) == IF a < b THEN a ELSE b

(***************************************************************************)
(* The document set and the index.  A document is its position in          *)
(* scrape_result.json; Content is its page_content.  The sixth page       *)
(* repeats the markdown of the fifth one.                                  *)
(***************************************************************************)
Corpus == 0 .. (NumDocs - 1)
Content(d) == IF d = 5 THEN 4 ELSE d

\* a query is identified by the two rankings the fixed index gives it
Offsets == 0 .. MaxOffset
Queries == [a : Offsets, b : Offsets, rev : BOOLEAN]

\* similarity order of the corpus for query q
DenseRanking(q) == [i \in 1 .. NumDocs |-> (q.a + i - 1) % NumDocs]
\* BM25 score order of the corpus for query q
Bm25Ranking(q) ==
    [i \in 1 .. NumDocs |->
        IF q.rev THEN (q.b + NumDocs - i) % NumDocs
                 ELSE (q.b + i - 1) % NumDocs]

TopK(s, k) == SubSeq(s, 1, Min(k, Len(s)))

\* the persisted collection holds `copies` entries per document; equal
\* vectors are equally near, so the copies of a document are adjacent
StoreOrder(q, copies) ==
    [i \in 1 .. (NumDocs * copies) |-> DenseRanking(q)[((i - 1) \div copies) + 1]]

\* vector_store.as_retriever(search_type="similarity", search_kwargs={"k": FAISS_K})
faiss_retriever(q, copies) == TopK(StoreOrder(q, copies), FAISS_K)
\* BM25Retriever.from_documents(documents); bm25_retriever.k = BM25_K
bm25_retriever(q) == TopK(Bm25Ranking(q), BM25_K)

(***************************************************************************)
(* EnsembleRetriever(retrievers=[faiss, bm25], weights=ENSEMBLE_WEIGHTS):  *)
(* weighted reciprocal rank fusion keyed by page_content.                  *)
(***************************************************************************)
RECURSIVE ListScore(_, _, _, _)
ListScore(key, list, w, r) ==
    IF r > Len(list) THEN 0
    ELSE (IF Content(list[r]) = key THEN w * (RrfScale \div (RRF_C + r)) ELSE 0)
         + ListScore(key, list, w, r + 1)

RrfScore(key, dense, sparse) ==
    ListScore(key, dense, ENSEMBLE_WEIGHTS[1], 1)
    + ListScore(key, sparse, ENSEMBLE_WEIGHTS[2], 1)

\* the value of a one-element set (binds an intermediate result once)
Only(S) == CHOOSE v \in S : TRUE

\* unique_by_key: the first document of every page_content, in order
UniqueByKey(s) ==
    Only({ [p \in 1 .. Cardinality(idx) |->
              s[CHOOSE i \in idx : Cardinality({j \in idx : j < i}) = p - 1]] :
           idx \in {{i \in 1 .. Len(s) :
                       \A j \in 1 .. (i - 1) : Content(s[j]) # Content(s[i])}} })

\* mutant: the sort without reverse=True
SortAsc(s, score) ==
    Only({ [p \in 1 .. Len(s) |-> s[CHOOSE i \in 1 .. Len(s) : pos[i] = p]] :
           pos \in {[i \in 1 .. Len(s) |->
                       1 + Cardinality({j \in 1 .. Len(s) :
                             \/ score[Content(s[j])] < score[Content(s[i])]
                             \/ score[Content(s[j])] = score[Content(s[i])] /\ j < i})]} })

\* sorted(..., reverse=True, key=rrf_score): descending and stable, so a
\* document stands after every one that scores more, or as much and came first
SortDesc(s, score) ==
    Only({ [p \in 1 .. Len(s) |-> s[CHOOSE i \in 1 .. Len(s) : pos[i] = p]] :
           pos \in {[i \in 1 .. Len(s) |->
                       1 + Cardinality({j \in 1 .. Len(s) :
                             \/ score[Content(s[j])] > score[Content(s[i])]
                             \/ score[Content(s[j])] = score[Content(s[i])] /\ j < i})]} })

weighted_reciprocal_rank(dense, sparse) ==
    Only({ SortDesc(unique, rrf_score) :
           unique \in {UniqueByKey(dense \o sparse)},
           rrf_score \in {[key \in Corpus |-> RrfScore(key, dense, sparse)]} })

\* retriever.get_relevant_documents(query)
create_hybrid_retriever(q, copies) ==
    Only({ weighted_reciprocal_rank(dense, sparse) :
           dense \in {faiss_retriever(q, copies)}, sparse \in {bm25_retriever(q)} })

(***************************************************************************)
(* rag/main.py                                                             *)
(***************************************************************************)
NoQuery == [a |-> 0, b |-> 0, rev |-> FALSE]
\* reinit: reset_rag_system ran since the call; fresh: the call was made after
\* such a reset of the pinned call
NoCall == [op |-> "none", query |-> NoQuery, status |-> "none",
           dense |-> <<>>, sparse |-> <<>>, results |-> <<>>,
           reinit |-> FALSE, fresh |-> FALSE, failed |-> FALSE]

RagInit ==
    /\ documents = "None"
    /\ vectorStore = "None"
    /\ retriever = "None"
    /\ persistDir \in BOOLEAN
    /\ persistCopies = (IF persistDir THEN 1 ELSE 0)
    /\ lastCall = NoCall
    /\ pinned = NoCall

\* line 23: if _documents is None or _vector_store is None or _retriever is None
NeedsInit == documents = "None" \/ vectorStore = "None" \/ retriever = "None"
\* mutant: the store is created again whether or not one is on disk
StoreNeverOnDisk == FALSE
\* line 25: os.path.exists(PERSIST_DIR) and os.listdir(PERSIST_DIR)
StoreOnDisk == persistDir

\* initialize_rag_system(); embedOk: the embedding API answers while
\* create_vector_store adds the documents
initialize_rag_system(embedOk) ==
    IF NeedsInit
    THEN IF StoreOnDisk
         THEN /\ documents' = "loaded"
              /\ vectorStore' = "store"
              /\ retriever' = "ensemble"
              /\ UNCHANGED <<persistDir, persistCopies>>
         ELSE /\ documents' = "loaded"
              /\ persistDir' = TRUE
              /\ IF embedOk
                 THEN /\ persistCopies' = persistCopies + 1
                      /\ vectorStore' = "store"
                      /\ retriever' = "ensemble"
                 ELSE UNCHANGED <<persistCopies, vectorStore, retriever>>
    ELSE UNCHANGED <<documents, vectorStore, retriever, persistDir, persistCopies>>

\* initialize_rag_system raises: the store had to be created and embedding failed
InitRaises(embedOk) == NeedsInit /\ ~StoreOnDisk /\ ~embedOk

\* lines 47-55: rank i+1 for the i-th document
Formatted(results) == [i \in 1 .. Len(results) |-> [rank |-> i, doc |-> results[i]]]

ResetRagSystem ==
    /\ RagFrame
    /\ documents' = "None"
    /\ vectorStore' = "None"
    /\ retriever' = "None"
    /\ pinned' = IF pinned.status = "returned" THEN [pinned EXCEPT !.reinit = TRUE]
                  ELSE pinned
    /\ UNCHANGED <<persistDir, persistCopies, lastCall>>

InitializeRagSystem ==
    /\ RagFrame
    /\ \E embedOk \in BOOLEAN :
        /\ initialize_rag_system(embedOk)
        /\ UNCHANGED <<lastCall, pinned>>

\* what a successful get_context leaves in lastCall: the two ranked lists read
\* from the index and the formatted answer of the ensemble
Retrieved(q, copies, results) ==
    [op |-> "get_context", query |-> q, status |-> "returned",
     dense |-> faiss_retriever(q, copies), sparse |-> bm25_retriever(q),
     results |-> Formatted(results), reinit |-> FALSE, fresh |-> pinned.reinit,
     failed |-> FALSE]

\* lines 58-60 and 114-116: the exception of the failed call is printed and
\* raised again
Raised(op, q) ==
    [NoCall EXCEPT !.op = op, !.query = q, !.status = "raised", !.failed = TRUE]

\* the third-party call that fails during a request, if any: the embedding
\* of the corpus, the query of the retriever, the completion of the LLM
RagFailures == {"none", "embed", "query", "llm"}

\* the entries per document in the collection once initialize_rag_system is done
CopiesAfterInit ==
    IF NeedsInit /\ ~StoreOnDisk THEN persistCopies + 1 ELSE persistCopies

GetContext ==
    /\ RagFrame
    /\ \E q \in Queries :
       \E results \in {create_hybrid_retriever(q, CopiesAfterInit)} :
       \E failure \in RagFailures \ {"llm"}, pin \in BOOLEAN :
        /\ initialize_rag_system(failure # "embed")
        /\ IF InitRaises(failure # "embed") \/ failure = "query"
           THEN /\ lastCall' = Raised("get_context", q)
                /\ UNCHANGED pinned
           ELSE /\ lastCall' = Retrieved(q, CopiesAfterInit, results)
                /\ pinned' = IF pin THEN [lastCall' EXCEPT !.fresh = FALSE] ELSE pinned

\* the rag tool: retrieval, then the answer of google_llm over docs[:5], which
\* is not part of the state; every exception is printed and raised again
\* (lines 114-116)
RagTool ==
    /\ RagFrame
    /\ \E failure \in RagFailures :
        /\ initialize_rag_system(failure # "embed")
        /\ UNCHANGED pinned
        /\ IF InitRaises(failure # "embed") \/ failure \in {"query", "llm"}
           THEN lastCall' = Raised("rag", NoQuery)
           ELSE lastCall' = [NoCall EXCEPT !.op = "rag", !.status = "returned"]

(***************************************************************************)
(* swe-agent/agent/tools.py: safe_shell_execute.  A command line is the    *)
(* sequence of the pieces of its text; a word is the text between blanks.  *)
(***************************************************************************)
safe_commands ==
    {"ls", "dir", "pwd", "cat", "head", "tail", "less", "more",
     "file", "stat", "du", "df", "find", "locate",
     "grep", "awk", "sed", "sort", "uniq", "wc", "cut",
     "ps", "top", "htop", "whoami", "id", "uname", "date",
     "uptime", "free", "which", "whereis",
     "ping", "nslookup", "dig", "curl", "wget",
     "git", "python", "node", "npm", "pip", "conda",
     "echo", "printf", "sleep", "timeout", "history"}

ShellPieces == {"ls", "echo", "rm", "x", " ", ";"}

RECURSIVE SeqsUpTo(_, _)
SeqsUpTo(S, n) ==
    IF n = 0 THEN {<<>>}
    ELSE LET shorter == SeqsUpTo(S, n - 1)
         IN  shorter \cup {Append(t, x) : t \in {u \in shorter : Len(u) = n - 1}, x \in S}

Commands == SeqsUpTo(ShellPieces, MaxCmdLen)

\* command.strip().split(): the words between runs of blanks
RECURSIVE Split(_, _, _)
Split(text, i, word) ==
    IF i > Len(text) THEN (IF word = "" THEN <<>> ELSE <<word>>)
    ELSE IF text[i] = " "
         THEN (IF word = "" THEN <<>> ELSE <<word>>) \o Split(text, i + 1, "")
         ELSE Split(text, i + 1, word \o text[i])

\* subprocess.run(command, shell=True): the shell takes ";" as the end of a
\* command wherever it stands, and starts the first word of every command
RECURSIVE ShellPrograms(_, _, _, _)
ShellPrograms(text, i, word, first) ==
    LET started == IF first /\ word # "" THEN {word} ELSE {}
    IN  IF i > Len(text) THEN started
        ELSE IF text[i] = ";"
             THEN started \cup ShellPrograms(text, i + 1, "", TRUE)
        ELSE IF text[i] = " "
             THEN started \cup ShellPrograms(text, i + 1, "", first /\ word = "")
        ELSE ShellPrograms(text, i + 1, word \o text[i], first)

ShellOutcomes == {"zero", "nonzero", "TimeoutExpired", "Exception"}

ShellInit ==
    /\ shellCmd \in Commands
    /\ shellCall = [result |-> "pending", ran |-> {}]

ShellIdle ==
    /\ shellCmd = <<>>
    /\ shellCall = [result |-> "pending", ran |-> {}]

\* lines 173-174: base_cmd = cmd_parts[0]; base_cmd not in safe_commands
Allowed(cmd_parts) == cmd_parts[1] \in safe_commands

SafeShellExecute ==
    /\ ShellFrame
    /\ shellCall.result = "pending"
    /\ UNCHANGED shellCmd
    /\ \E outcome \in ShellOutcomes :
       LET cmd_parts == Split(shellCmd, 1, "")
       IN  IF cmd_parts = <<>>
           THEN shellCall' = [result |-> "empty command", ran |-> {}]
           ELSE IF ~Allowed(cmd_parts)
           THEN shellCall' = [result |-> "not allowed", ran |-> {}]
           ELSE IF outcome = "Exception"
           THEN shellCall' = [result |-> "execution failed", ran |-> {}]
           ELSE shellCall' =
                    [result |-> CASE outcome = "zero" -> "command successful"
                                  [] outcome = "nonzero" -> "command failed"
                                  [] OTHER -> "command timed out",
                     ran |-> ShellPrograms(shellCmd, 1, "", TRUE)]

(***************************************************************************)
(* swe-agent/agent/tools.py: enhanced_python_repl.  The code is the        *)
(* sequence of the pieces of its text.                                     *)
(***************************************************************************)
CodePieces ==
    {"import", "os", "system", "subprocess.", "eval", "EVAL", "exec", "(",
     "__import__", "open", "w", "root", "rm", "-rf", " ", "\n"}

\* code of MaxCodeLen pieces at most, and three longer samples of importing
\* os and naming system
Codes ==
    SeqsUpTo(CodePieces, MaxCodeLen)
    \cup {<<"import", " ", "os", "system">>, <<"import", "\n", " ", "os", "exec", "system">>,
          <<"import", " ", "os", "\n", "os", "system">>}

\* mutant: the search without re.IGNORECASE
LowerKeepsCase(piece) == piece
\* re.IGNORECASE
Lower(piece) == IF piece = "EVAL" THEN "eval" ELSE piece
\* \s
IsSpace(piece) == piece \in {" ", "\n"}

\* literal then \s* (min = 0) or \s+ (min = 1) then literal
SpacedPair(code, a, b, min) ==
    \E i \in DOMAIN code, j \in DOMAIN code :
        /\ j >= i + 1 + min
        /\ Lower(code[i]) = a
        /\ Lower(code[j]) = b
        /\ \A k \in (i + 1) .. (j - 1) : IsSpace(code[k])

\* a .* b from place i on: "." matches anything but a newline
DotStar(code, i, b) ==
    \E j \in DOMAIN code :
        /\ j > i
        /\ Lower(code[j]) = b
        /\ \A k \in (i + 1) .. (j - 1) : code[k] # "\n"

\* re.search(dangerous_patterns[n], code, re.IGNORECASE)
Search(n, code) ==
    CASE n = 1 -> \E i \in DOMAIN code, j \in DOMAIN code :  \* import\s+os.*system
                    /\ j >= i + 2
                    /\ Lower(code[i]) = "import"
                    /\ Lower(code[j]) = "os"
                    /\ \A k \in (i + 1) .. (j - 1) : IsSpace(code[k])
                    /\ DotStar(code, j, "system")
      [] n = 2 -> \E i \in DOMAIN code : Lower(code[i]) = "subprocess."  \* subprocess\.
      [] n = 3 -> SpacedPair(code, "eval", "(", 0)                        \* eval\s*\(
      [] n = 4 -> SpacedPair(code, "exec", "(", 0)                        \* exec\s*\(
      [] n = 5 -> \E i \in DOMAIN code : Lower(code[i]) = "__import__"   \* __import__
      [] n = 6 -> \E i \in DOMAIN code, j \in DOMAIN code :             \* open.*w.*root
                    /\ Lower(code[i]) = "open"
                    /\ j > i
                    /\ Lower(code[j]) = "w"
                    /\ \A k \in (i + 1) .. (j - 1) : code[k] # "\n"
                    /\ DotStar(code, j, "root")
      [] n = 7 -> SpacedPair(code, "rm", "-rf", 1)                        \* rm\s+-rf

NumPatterns == 7

\* lines 38-40: the first pattern the code matches, 0 when it matches none
FirstDangerous(code) ==
    IF \E n \in 1 .. NumPatterns : Search(n, code)
    THEN CHOOSE n \in 1 .. NumPatterns :
            Search(n, code) /\ \A m \in 1 .. (n - 1) : ~Search(m, code)
    ELSE 0

ReplOutcomes == {"output", "no output", "SyntaxError", "Exception"}

ReplInit ==
    /\ replCode \in Codes
    /\ replCall = [result |-> "pending", pattern |-> 0, runs |-> 0]

ReplIdle ==
    /\ replCode = <<>>
    /\ replCall = [result |-> "pending", pattern |-> 0, runs |-> 0]

EnhancedPythonRepl ==
    /\ ReplFrame
    /\ replCall.result = "pending"
    /\ UNCHANGED replCode
    /\ \E outcome \in ReplOutcomes :
       LET hit == FirstDangerous(replCode)
       IN  IF hit # 0
           THEN replCall' = [result |-> "potentially unsafe operation detected",
                             pattern |-> hit, runs |-> 0]
           ELSE replCall' =
                    [result |-> CASE outcome = "output" -> "execution successful"
                                  [] outcome = "no output" -> "code executed successfully (no output)"
                                  [] outcome = "SyntaxError" -> "syntax error"
                                  [] OTHER -> "runtime error",
                     pattern |-> 0, runs |-> replCall.runs + 1]

(***************************************************************************)
(* ai-voice-agent.py: main() and record_audio().  The only thread the file *)
(* starts is the ENTER listener of record_audio; it is never joined.       *)
(***************************************************************************)
NoVoiceCall == [step |-> "none", failed |-> FALSE, graphThread |-> "none"]

VoiceInit ==
    /\ voicePc = "prompt"
    /\ voiceTurns = 0
    /\ stopSet = FALSE
    /\ lsnWaiting = 0
    /\ lsnLingering = 0
    /\ voiceCall = NoVoiceCall

\* lines 122-128: quit, or ENTER and into record_audio
VoicePrompt ==
    /\ VoiceFrame
    /\ voicePc = "prompt"
    /\ voiceTurns < MaxTurns
    /\ \E cmd \in {"quit", "enter"} :
         voicePc' = IF cmd = "quit" THEN "exited" ELSE "armed"
    /\ UNCHANGED <<voiceTurns, stopSet, lsnWaiting, lsnLingering, voiceCall>>

\* lines 39-59: a new stop_event and a new listener thread
StartRecording ==
    /\ VoiceFrame
    /\ voicePc = "armed"
    /\ voicePc' = "recording"
    /\ stopSet' = FALSE
    /\ lsnWaiting' = lsnWaiting + 1
    /\ UNCHANGED <<voiceTurns, lsnLingering, voiceCall>>

\* lines 54-56, on the listener thread: input() returns, stop_event.set()
ListenerEnter ==
    /\ VoiceFrame
    /\ lsnWaiting > 0
    /\ lsnWaiting' = lsnWaiting - 1
    /\ lsnLingering' = lsnLingering + 1
    /\ stopSet' = TRUE
    /\ UNCHANGED <<voicePc, voiceTurns, voiceCall>>

\* wait_for_enter returns and the thread ends
ListenerExit ==
    /\ VoiceFrame
    /\ lsnLingering > 0
    /\ lsnLingering' = lsnLingering - 1
    /\ UNCHANGED <<voicePc, voiceTurns, stopSet, lsnWaiting, voiceCall>>

\* mutant: the capture loop does not wait for the event
CaptureNeverWaits == TRUE
\* line 63: while not stop_event.is_set()
CaptureDone == stopSet

\* lines 63-78: the capture loop ends, the wav file is written
StopRecording ==
    /\ VoiceFrame
    /\ voicePc = "recording"
    /\ CaptureDone
    /\ voicePc' = "transcribe"
    /\ UNCHANGED <<voiceTurns, stopSet, lsnWaiting, lsnLingering, voiceCall>>

\* main() has no try: an exception of a call leaves the loop and main()
VoiceUncaught == "crashed"

\* lines 131-134: transcribe_audio, the speech-to-text API
Transcribe ==
    /\ VoiceFrame
    /\ voicePc = "transcribe"
    /\ \E heard \in {"text", "quit", "error"} :
         /\ voicePc' = CASE heard = "error" -> VoiceUncaught
                          [] heard = "quit" -> "exited"
                          [] OTHER -> "invoke"
         /\ voiceCall' = [voiceCall EXCEPT !.step = "transcribe", !.failed = (heard = "error")]
    /\ UNCHANGED <<voiceTurns, stopSet, lsnWaiting, lsnLingering>>

\* lines 137-149: graph.invoke on the calling thread
InvokeGraph ==
    /\ VoiceFrame
    /\ voicePc = "invoke"
    /\ \E got \in {"reply", "no ai message", "error"} :
         /\ voicePc' = CASE got = "error" -> VoiceUncaught
                          [] got = "reply" -> "speak"
                          [] OTHER -> "prompt"
         /\ voiceTurns' = IF got = "no ai message" THEN voiceTurns + 1 ELSE voiceTurns
         /\ voiceCall' = [step |-> "graph", failed |-> (got = "error"), graphThread |-> "main"]
    /\ UNCHANGED <<stopSet, lsnWaiting, lsnLingering>>

\* lines 154-157: synthesize_and_play, the text-to-speech API
Speak ==
    /\ VoiceFrame
    /\ voicePc = "speak"
    /\ \E ok \in BOOLEAN :
         /\ voicePc' = IF ok THEN "prompt" ELSE VoiceUncaught
         /\ voiceTurns' = IF ok THEN voiceTurns + 1 ELSE voiceTurns
         /\ voiceCall' = [voiceCall EXCEPT !.step = "speak", !.failed = ~ok]
    /\ UNCHANGED <<stopSet, lsnWaiting, lsnLingering>>

(***************************************************************************)
(* swe-agent/main.py (SWEAgentCLI) and agent/core.py (SWEAgent)            *)
(***************************************************************************)
ThreadIds == 0 .. MaxResets
NoPending == [text |-> "", tid |-> -1, req |-> 0, test |-> FALSE]

SweInit ==
    /\ swePc = "prompt"
    /\ thread_id = 0
    /\ usedIds = {0}
    /\ prevThread = -1
    /\ resetAt = 0
    /\ reqCount = 0
    /\ pending = NoPending
    /\ sweWorker = "none"
    /\ sweHistory = [t \in ThreadIds |-> <<>>]
    /\ debug_mode = FALSE

\* mutant: /reset keeps the thread
KeepThread == thread_id
\* str(uuid4()): an id no thread has had
uuid4 == CHOOSE t \in ThreadIds \ usedIds : TRUE

\* process_sync(text, self.thread_id): asyncio.run(process_async(...)), whose
\* asyncio.to_thread starts the graph on a worker thread while main awaits
StartRequest(text, test) ==
    /\ reqCount < MaxRequests
    /\ reqCount' = reqCount + 1
    /\ pending' = [text |-> text, tid |-> thread_id, req |-> reqCount + 1, test |-> test]
    /\ sweWorker' = "running"
    /\ swePc' = "awaiting"

\* _handle_command, lines 56-84
HandleCommand ==
    /\ SweFrame
    /\ swePc = "prompt"
    /\ \E cmd \in {"help", "clear", "reset", "status", "debug", "quit", "test", "other"} :
         CASE cmd = "reset" ->
                /\ usedIds # ThreadIds
                /\ prevThread' = thread_id
                /\ thread_id' = uuid4
                /\ usedIds' = usedIds \cup {thread_id'}
                /\ resetAt' = reqCount
                /\ UNCHANGED <<swePc, reqCount, pending, sweWorker, sweHistory, debug_mode>>
           [] cmd = "debug" ->
                /\ debug_mode' = ~debug_mode
                /\ UNCHANGED <<swePc, thread_id, usedIds, prevThread, resetAt, reqCount,
                               pending, sweWorker, sweHistory>>
           [] cmd = "quit" ->
                /\ swePc' = "exited"
                /\ UNCHANGED <<thread_id, usedIds, prevThread, resetAt, reqCount, pending,
                               sweWorker, sweHistory, debug_mode>>
           [] cmd = "test" ->
                /\ StartRequest("hello", TRUE)
                /\ UNCHANGED <<thread_id, usedIds, prevThread, resetAt, sweHistory, debug_mode>>
           [] OTHER -> UNCHANGED sweVars

\* _process_input, lines 127-135
ProcessInput ==
    /\ SweFrame
    /\ swePc = "prompt"
    /\ \E text \in {"a"} : StartRequest(text, FALSE)
    /\ UNCHANGED <<thread_id, usedIds, prevThread, resetAt, sweHistory, debug_mode>>

Msg(type) == [type |-> type, req |-> pending.req, tid |-> pending.tid, text |-> pending.text]

\* agent_graph.invoke on the worker thread, lines 114-118: the checkpointer
\* keeps the human message and what the agent and tools nodes added
WorkerInvoke ==
    /\ SweFrame
    /\ sweWorker = "running"
    /\ \E run \in {"answer", "tools then answer", "llm error"} :
         sweHistory' =
            [sweHistory EXCEPT ![pending.tid] =
                @ \o CASE run = "answer" -> <<Msg("human"), Msg("ai")>>
                       [] run = "tools then answer" ->
                            <<Msg("human"), Msg("ai tool_calls"), Msg("tool"), Msg("ai")>>
                       [] OTHER -> <<Msg("human")>>]
    /\ sweWorker' = "finished"
    /\ UNCHANGED <<swePc, thread_id, usedIds, prevThread, resetAt, reqCount, pending, debug_mode>>

\* the await returns, asyncio.run ends with its executor shut down
RequestReturns ==
    /\ SweFrame
    /\ swePc = "awaiting"
    /\ sweWorker = "finished"
    /\ swePc' = "prompt"
    /\ sweWorker' = "none"
    /\ pending' = NoPending
    /\ UNCHANGED <<thread_id, usedIds, prevThread, resetAt, reqCount, sweHistory, debug_mode>>

\* get_conversation_history(thread_id)
get_conversation_history(t) == sweHistory[t]

(***************************************************************************)
(* swe-agent/agent/tools.py: filter_messages_for_openai                    *)
(***************************************************************************)
\* a message: its class, the ids of its tool_calls (an AIMessage) and its
\* tool_call_id (a ToolMessage, else 0); "function" is any other class
Message(type, calls, id) == [type |-> type, calls |-> calls, id |-> id]
MessageKinds ==
    {Message("system", {}, 0), Message("human", {}, 0), Message("ai", {}, 0),
     Message("ai", {1}, 0), Message("ai", {1, 2}, 0),
     Message("tool", {}, 1), Message("tool", {}, 2), Message("function", {}, 0)}

RECURSIVE FilterOuter(_, _)
RECURSIVE FilterInner(_, _)
\* lines 83-85: the ToolMessages that follow an AIMessage with tool calls
FilterInner(messages, i) ==
    IF i <= Len(messages) /\ messages[i].type = "tool"
    THEN <<messages[i]>> \o FilterInner(messages, i + 1)
    ELSE FilterOuter(messages, i)

\* lines 72-90: the outer loop from index i on
FilterOuter(messages, i) ==
    IF i > Len(messages) THEN <<>>
    ELSE LET msg == messages[i]
         IN  IF msg.type \in {"system", "human"}
             THEN <<msg>> \o FilterOuter(messages, i + 1)
             ELSE IF msg.type = "ai"
             THEN IF msg.calls # {}
                  THEN <<msg>> \o FilterInner(messages, i + 1)
                  ELSE <<msg>> \o FilterOuter(messages, i + 1)
             ELSE FilterOuter(messages, i + 1)

filter_messages_for_openai(messages) == FilterOuter(messages, 1)

FilterInit ==
    /\ filterIn \in SeqsUpTo(MessageKinds, MaxMsgs)
    /\ filterOut = "pending"

FilterIdle ==
    /\ filterIn = <<>>
    /\ filterOut = "pending"

FilterMessages ==
    /\ FilterFrame
    /\ filterOut = "pending"
    /\ filterOut' = filter_messages_for_openai(filterIn)
    /\ UNCHANGED filterIn

(***************************************************************************)
(* ai-chatbot/src/mail/main.py: send_consultation_confirmation             *)
(***************************************************************************)
Emails == {"ann@example.com", "bob@example.com"}
\* where the SMTP conversation of lines 136-139 can raise; "quit" is the QUIT
\* sent when the with block is left
SmtpFailures == {"none", "connect", "starttls", "login", "send_message", "quit"}

ConfigMissingText == "Email configuration missing. Please set EMAIL_USER and EMAIL_PASSWORD environment variables."
FailedText == "Failed to send confirmation email. Please contact us directly at hello@getsolar.ai"
SentText(email) == "Confirmation email sent to " \o email \o "! Please check your inbox."

NoMailCall == [email |-> "", userSet |-> FALSE, passwordSet |-> FALSE, failAt |-> "none",
               result |-> "none", failed |-> FALSE, raised |-> FALSE, sessionsBefore |-> 0]

MailInit ==
    /\ outbox = <<>>
    /\ smtpSessions = 0
    /\ mailCall = NoMailCall

\* mutant: the configuration counts as missing only when both are unset
ConfigMissingBoth(userSet, passwordSet) == ~userSet /\ ~passwordSet
\* line 86: if not smtp_user or not smtp_password
ConfigMissing(userSet, passwordSet) == ~userSet \/ ~passwordSet

SendConsultationConfirmation ==
    /\ MailFrame
    /\ smtpSessions < MaxMails
    /\ \E email \in Emails, userSet \in BOOLEAN, passwordSet \in BOOLEAN,
          failAt \in SmtpFailures :
         LET call == [NoMailCall EXCEPT !.email = email, !.userSet = userSet,
                                        !.passwordSet = passwordSet, !.failAt = failAt,
                                        !.sessionsBefore = smtpSessions]
         IN  IF ConfigMissing(userSet, passwordSet)
             THEN /\ mailCall' = [call EXCEPT !.result = ConfigMissingText]
                  /\ UNCHANGED <<outbox, smtpSessions>>
             ELSE \* the connection is open once smtplib.SMTP(...) returned
                  /\ smtpSessions' = IF failAt = "connect" THEN smtpSessions
                                                            ELSE smtpSessions + 1
                  \* the server has the message once send_message returned
                  /\ outbox' = IF failAt \in {"none", "quit"} THEN Append(outbox, email)
                                                               ELSE outbox
                  /\ mailCall' = IF failAt = "none"
                                 THEN [call EXCEPT !.result = SentText(email)]
                                 ELSE [call EXCEPT !.result = FailedText, !.failed = TRUE]

(***************************************************************************)
(* ai-chatbot/src/crm/main.py: CRMDatabase.save_lead and save_lead_to_crm  *)
(***************************************************************************)
\* contact_info_json: text that is no JSON, JSON that is no object, an object
\* (with or without the three keys), an object with a value sqlite cannot bind
ContactJsons == {"not json", "[1]", "null", "{}", "{ann}", "{bob}", "{name: [1]}"}
IsJson(text) == text # "not json"
IsObject(text) == text \in {"{}", "{ann}", "{bob}", "{name: [1]}"}
\* contact_info.get(key, '')
ContactGet(text, key) ==
    CASE text = "{ann}" -> (CASE key = "name" -> "Ann" [] key = "email" -> "ann@example.com"
                              [] OTHER -> "+65-1")
      [] text = "{bob}" -> (CASE key = "name" -> "Bob" [] key = "email" -> "bob@example.com"
                              [] OTHER -> "")
      [] text = "{name: [1]}" -> (IF key = "name" THEN "a list" ELSE "")
      [] OTHER -> ""
Bindable(text) == text # "{name: [1]}"

\* LeadScoring, lines 14-18
LeadScoring(q, i, r, why) ==
    [lead_quality |-> q, interest_level |-> i, readiness_to_buy |-> r, reasoning |-> why]
\* what structured_llm.invoke gives: a scoring, None, or an exception
LlmScorings ==
    {LeadScoring("hot", 9, "immediate", "asked for a consultation"),
     LeadScoring("cold", 2, "research_only", "just browsing")}
\* stands for Python's None, which has none of the fields
PyNone == LeadScoring("None", 0, "None", "None")
LlmError == LeadScoring("error", 0, "error", "error")
LlmOutcomes == LlmScorings \cup {PyNone, LlmError}

\* analyze_conversation, lines 52-105: the except branch scores by default
analyze_conversation(llm) ==
    IF llm = LlmError
    THEN LeadScoring("warm", 5, "unknown", "Automatic scoring due to analysis error")
    ELSE llm

\* the row of lines 122-137: readiness_to_buy is not among the inserted columns
LeadRow(id, thread, contact, scoring, summary) ==
    [id |-> id, thread_id |-> thread,
     name |-> ContactGet(contact, "name"), email |-> ContactGet(contact, "email"),
     phone |-> ContactGet(contact, "phone"),
     lead_quality |-> scoring.lead_quality, interest_level |-> scoring.interest_level,
     readiness_to_buy |-> "NULL", scoring_reasoning |-> scoring.reasoning,
     conversation_summary |-> summary, full_conversation |-> "[]"]

\* mutant: the row is written whatever contact_info is
InsertAnyway(contact, scoring, dbOk) == scoring # PyNone /\ dbOk
\* save_lead reaches conn.commit(): contact_info has .get, the scoring has
\* its fields, sqlite binds the parameters and executes the INSERT
InsertCommits(contact, scoring, dbOk) ==
    IsObject(contact) /\ scoring # PyNone /\ Bindable(contact) /\ dbOk

SavedText(scoring) == [text |-> "Lead saved to CRM successfully", quality |-> scoring.lead_quality,
                       interest |-> scoring.interest_level, analysis |-> scoring.reasoning]
ErrorText == [text |-> "Error saving lead to CRM", quality |-> "", interest |-> 0, analysis |-> ""]

NoCrmCall == [contact |-> "", llm |-> LlmError, dbOk |-> TRUE, result |-> ErrorText,
              done |-> FALSE, raised |-> FALSE, before |-> <<>>]

CrmInit ==
    /\ leads = <<>>
    /\ crmCall = NoCrmCall

\* save_lead_to_crm, lines 197-229
SaveLeadToCrm ==
    /\ CrmFrame
    /\ Len(leads) < MaxLeads
    /\ \E thread \in {"t1"}, contact \in ContactJsons, llm \in LlmOutcomes, dbOk \in BOOLEAN :
         LET call == [NoCrmCall EXCEPT !.contact = contact, !.llm = llm, !.dbOk = dbOk,
                                       !.done = TRUE, !.before = leads]
             \* json.loads raises on text that is no JSON; save_lead is not called
             scoring == analyze_conversation(llm)
         IN  IF IsJson(contact) /\ InsertCommits(contact, scoring, dbOk)
             THEN /\ leads' = Append(leads, LeadRow(Len(leads) + 1, thread, contact, scoring, ""))
                  /\ crmCall' = [call EXCEPT !.result = SavedText(scoring)]
             ELSE /\ UNCHANGED leads
                  /\ crmCall' = [call EXCEPT !.result = ErrorText]

(***************************************************************************)
(* ai-chatbot/src/ai-chatbot.py: call_model, the conversation node         *)
(***************************************************************************)
\* a message of state["messages"]: its type, the tool's name and the kind of
\* its result (a ToolMessage), the tools it calls (an AIMessage)
ChatMsg(type, name, content, calls) ==
    [type |-> type, name |-> name, content |-> content, calls |-> calls]
UserMessage == ChatMsg("human", "", "user", <<>>)
AiAnswer == ChatMsg("ai", "", "answer", <<>>)
AiToolCalls(calls) == ChatMsg("ai", "", "", calls)
ToolMessage(name, content) == ChatMsg("tool", name, content, <<>>)
\* lines 93-95: fallback_msg, a HumanMessage
FallbackMessage == ChatMsg("human", "", "fallback", <<>>)

\* the tool calls of one response of the LLM, among the tools of lines 45-51;
\* "rag" stands for rag, open_getsolar_calculator and get_booking_link, tools
\* that play no part in the routing
ToolCallLists ==
    {<<"rag">>, <<"extract_contact_info">>, <<"send_consultation_confirmation">>,
     <<"extract_contact_info", "send_consultation_confirmation">>}
\* what a tool's ToolMessage can hold: the contact as JSON with or without
\* an email (mail/main.py 47-59), the three answers of the confirmation
\* (mail/main.py 87, 142, 146), a text
ToolResults(name) ==
    CASE name = "extract_contact_info" -> {"contact", "no email"}
      [] name = "send_consultation_confirmation" -> {"sent", "failed", "config missing"}
      [] OTHER -> {"text"}

NoChatCall == [node |-> "none", failed |-> FALSE, outcome |-> "none", response |-> UserMessage]
NoWrites == [add |-> <<>>, remove |-> {}, summary |-> "keep", next |-> {}]

ChatInit ==
    /\ chatMessages = <<>>
    /\ chatCall = NoChatCall
    /\ chatSummary = "unset"
    /\ chatActive = {}
    /\ chatRan = {}
    /\ chatWrites = NoWrites
    /\ chatSteps = <<>>
    /\ chatTurns = 0

\* mutant: the except branch raises again
CallModelReraises == "raised"
\* lines 91-96: the except branch returns the fallback message
CallModelExcept == "fallback"

\* langgraph.prebuilt.tools_condition: "tools" when the last message is an
\* AIMessage with tool calls
tools_condition(messages) ==
    IF messages # <<>> /\ messages[Len(messages)].calls # <<>> THEN "tools" ELSE "END"

HasToolResult(messages, name) ==
    \E i \in DOMAIN messages : messages[i].type = "tool" /\ messages[i].name = name

\* lines 187-198, the definition in force when build_workflow runs
check_consultation_completion(messages) ==
    IF /\ HasToolResult(messages, "extract_contact_info")
       /\ HasToolResult(messages, "send_consultation_confirmation")
    THEN "save_crm" ELSE "END"

\* lines 239-243
should_summarize(messages) ==
    IF Len(messages) > 6 THEN "summarize_conversation" ELSE "END"

\* lines 263-292: the three conditional edges that leave "conversation"
ConversationEdges(messages) ==
    {tools_condition(messages), check_consultation_completion(messages),
     should_summarize(messages)} \ {"END"}

\* a node of the superstep in progress that has not run yet
ToRun(node) == node \in chatActive \ chatRan

\* what a node hands back to the graph
Returned(node, add, remove, summary, next) ==
    /\ chatRan' = chatRan \cup {node}
    /\ chatWrites' = [add |-> chatWrites.add \o add,
                      remove |-> chatWrites.remove \cup remove,
                      summary |-> IF summary = "keep" THEN chatWrites.summary ELSE summary,
                      next |-> chatWrites.next \cup next]

\* lines 342-346 of the chat loop (ai-voice-agent.py 137-140 likewise):
\* graph.invoke with the user's message starts a turn at "conversation"
UserTurn ==
    /\ ChatFrame
    /\ chatActive = {}
    /\ chatTurns < MaxUserTurns
    /\ Len(chatMessages) + 2 <= MaxChat
    /\ chatMessages' = Append(chatMessages, UserMessage)
    /\ chatActive' = {"conversation"}
    /\ chatRan' = {}
    /\ chatWrites' = NoWrites
    /\ chatSteps' = <<>>
    /\ chatTurns' = chatTurns + 1
    /\ UNCHANGED <<chatCall, chatSummary>>

\* call_model, lines 78-96, and the conditional edges evaluated on its result
CallModel ==
    /\ ChatFrame
    /\ ToRun("conversation")
    /\ \E llm \in {<<"answer">>, <<"error">>} \cup
                  {c \in ToolCallLists : Len(chatMessages) + Len(c) + 2 <= MaxChat} :
         LET failed == llm = <<"error">>
             response == IF failed THEN FallbackMessage
                         ELSE IF llm = <<"answer">> THEN AiAnswer
                         ELSE AiToolCalls(llm)
         IN  /\ chatCall' = [node |-> "conversation", failed |-> failed,
                             outcome |-> IF failed THEN CallModelExcept ELSE "returned",
                             response |-> response]
             /\ Returned("conversation", <<response>>, {}, "keep",
                         ConversationEdges(Append(chatMessages, response)))
    /\ UNCHANGED <<chatMessages, chatSummary, chatActive, chatSteps, chatTurns>>

\* every way of answering the calls of an AIMessage, one ToolMessage per call
RECURSIVE ToolOutputs(_)
ToolOutputs(calls) ==
    IF calls = <<>> THEN {<<>>}
    ELSE {<<ToolMessage(calls[1], r)>> \o rest :
              r \in ToolResults(calls[1]), rest \in ToolOutputs(Tail(calls))}

\* mutant: no edge leaves "tools"
ToolsEdgeMissing == {}
\* line 271: builder.add_edge("tools", "conversation")
ToolsEdge == {"conversation"}

\* line 255, ToolNode(tools): the tools called by the last message run and
\* their results are added
ToolsNode ==
    /\ ChatFrame
    /\ ToRun("tools")
    /\ \E outputs \in ToolOutputs(chatMessages[Len(chatMessages)].calls) :
         Returned("tools", outputs, {}, "keep", ToolsEdge)
    /\ UNCHANGED <<chatMessages, chatCall, chatSummary, chatActive, chatSteps, chatTurns>>

\* a tool raises (rag does, rag/main.py 114-116) and ToolNode lets the
\* exception out: the superstep is abandoned with nothing written, and
\* graph.invoke raises into the except branch of lines 364-367
ToolRaises ==
    /\ ChatFrame
    /\ ToRun("tools")
    /\ \E i \in DOMAIN chatMessages[Len(chatMessages)].calls :
         chatMessages[Len(chatMessages)].calls[i] = "rag"
    /\ chatActive' = {}
    /\ chatRan' = {}
    /\ chatWrites' = NoWrites
    /\ UNCHANGED <<chatMessages, chatCall, chatSummary, chatSteps, chatTurns>>

\* lines 136-163: the first extract_contact_info result among the last ten
\* messages, "none" without one
RecentContact(messages) ==
    LET found == {i \in DOMAIN messages :
                     /\ i > Len(messages) - 10
                     /\ messages[i].type = "tool"
                     /\ messages[i].name = "extract_contact_info"}
    IN  IF found = {} THEN "none"
        ELSE messages[CHOOSE i \in found : \A j \in found : i <= j].content

\* save_consultation_to_crm, lines 132-185, with crm_db.save_lead; the edge
\* of line 286 is evaluated on the unchanged messages
SaveConsultationToCrm ==
    /\ program = "chat"
    /\ UNCHANGED <<program, ragVars, shellVars, replVars, voiceVars, sweVars, filterVars,
                   mailVars, crmCall>>
    /\ ToRun("save_crm")
    /\ \E llm \in LlmOutcomes, dbOk \in BOOLEAN :
         LET scoring == analyze_conversation(llm)
             summary == IF chatSummary = "unset"
                        THEN "user completed solar consultation booking"
                        ELSE chatSummary
             row == [LeadRow(Len(leads) + 1, "chat-uuid4", "{ann}", scoring, summary)
                        EXCEPT !.full_conversation = "messages"]
         IN  leads' = IF /\ RecentContact(chatMessages) = "contact"
                         /\ InsertCommits("{ann}", scoring, dbOk)
                      THEN Append(leads, row)
                      ELSE leads
    /\ Returned("save_crm", <<>>, {}, "keep", {should_summarize(chatMessages)} \ {"END"})
    /\ UNCHANGED <<chatMessages, chatCall, chatSummary, chatActive, chatSteps, chatTurns>>

\* lines 202-212: the positions of the human and AI messages without tool calls
Filtered(messages) ==
    {i \in DOMAIN messages : messages[i].type \in {"human", "ai"} /\ messages[i].calls = <<>>}

\* line 228: filtered[:-2]
AllButLastTwo(S) == {i \in S : Cardinality({j \in S : j > i}) >= 2}

\* summarize_conversation, lines 200-236; line 294 leads to END
SummarizeConversation ==
    /\ ChatFrame
    /\ ToRun("summarize_conversation")
    /\ \E ok \in BOOLEAN :
         IF ok
         THEN Returned("summarize_conversation", <<>>, AllButLastTwo(Filtered(chatMessages)),
                       "llm summary", {})
         ELSE Returned("summarize_conversation", <<>>, {},
                       "conversation about solar energy consultation", {})
    /\ UNCHANGED <<chatMessages, chatCall, chatSummary, chatActive, chatSteps, chatTurns>>

\* the messages at the positions outside `remove`, in order
RECURSIVE Kept(_, _, _)
Kept(messages, remove, i) ==
    IF i > Len(messages) THEN <<>>
    ELSE (IF i \in remove THEN <<>> ELSE <<messages[i]>>) \o Kept(messages, remove, i + 1)

\* the end of a superstep of the compiled graph (line 297): the writes of its
\* nodes reach the state, RemoveMessage first taking its messages out, and the
\* nodes their edges name make up the next superstep
ApplyWrites ==
    /\ ChatFrame
    /\ chatActive # {}
    /\ chatRan = chatActive
    /\ chatMessages' = Kept(chatMessages, chatWrites.remove, 1) \o chatWrites.add
    /\ chatSummary' = IF chatWrites.summary = "keep" THEN chatSummary ELSE chatWrites.summary
    /\ chatSteps' = Append(chatSteps, [nodes |-> chatActive,
                                       calls |-> /\ "conversation" \in chatActive
                                                 /\ chatCall.response.calls # <<>>])
    /\ chatActive' = chatWrites.next
    /\ chatRan' = {}
    /\ chatWrites' = NoWrites
    /\ UNCHANGED <<chatCall, chatTurns>>

(***************************************************************************)
(* Specifications: one per program part, the other parts at rest           *)
(***************************************************************************)
vars == <<program, ragVars, shellVars, replVars, voiceVars, sweVars, filterVars, mailVars,
          crmVars, chatVars>>

RagIdle == RagInit /\ ~persistDir

\* the start of a run that exercises one of the parts in P
InitFor(P) ==
    /\ program \in P
    /\ IF program = "rag" THEN RagInit ELSE RagIdle
    /\ IF program = "shell" THEN ShellInit ELSE ShellIdle
    /\ IF program = "repl" THEN ReplInit ELSE ReplIdle
    /\ IF program = "filter" THEN FilterInit ELSE FilterIdle
    /\ VoiceInit
    /\ SweInit
    /\ MailInit
    /\ CrmInit
    /\ ChatInit

Init == InitFor({"rag", "shell", "repl", "voice", "swe", "filter", "mail", "crm", "chat"})

RagNext == ResetRagSystem \/ InitializeRagSystem \/ GetContext \/ RagTool

VoiceNext ==
    \/ VoicePrompt \/ StartRecording \/ ListenerEnter \/ ListenerExit
    \/ StopRecording \/ Transcribe \/ InvokeGraph \/ Speak

SweNext == HandleCommand \/ ProcessInput \/ WorkerInvoke \/ RequestReturns

ChatNext ==
    \/ UserTurn \/ CallModel \/ ToolsNode \/ ToolRaises \/ SaveConsultationToCrm
    \/ SummarizeConversation \/ ApplyWrites

SpecRag == InitFor({"rag"}) /\ [][RagNext]_vars
SpecShell == InitFor({"shell"}) /\ [][SafeShellExecute]_vars
SpecRepl == InitFor({"repl"}) /\ [][EnhancedPythonRepl]_vars
SpecThreads == InitFor({"voice", "swe"}) /\ [][VoiceNext \/ SweNext]_vars
SpecCli == InitFor({"swe"}) /\ [][SweNext]_vars
SpecFilter == InitFor({"filter"}) /\ [][FilterMessages]_vars
SpecMail == InitFor({"mail"}) /\ [][SendConsultationConfirmation]_vars
SpecCrm == InitFor({"crm"}) /\ [][SaveLeadToCrm]_vars
SpecChat == InitFor({"chat"}) /\ [][ChatNext]_vars
\* the handlers that call a third party: the rag tool and get_context, the
\* conversation node, the confirmation mail, the voice loop
SpecErr ==
    InitFor({"rag", "chat", "mail", "voice"})
    /\ [][RagNext \/ ChatNext \/ SendConsultationConfirmation \/ VoiceNext]_vars

(***************************************************************************)
(* Properties                                                              *)
(***************************************************************************)
C1Docs == [i \in 1 .. Len(lastCall.results) |-> lastCall.results[i].doc]

\* the fused score of a page: 0.8 / (60 + rank) for each place in the dense
\* list plus 0.2 / (60 + rank) for each place in the BM25 list
RECURSIVE C1Sum(_, _, _)
C1Sum(key, list, r) ==
    IF r = 0 THEN 0
    ELSE (IF Content(list[r]) = key THEN RrfScale \div (60 + r) ELSE 0) + C1Sum(key, list, r - 1)

C1Fused(d) ==
    8 * C1Sum(Content(d), lastCall.dense, Len(lastCall.dense))
    + 2 * C1Sum(Content(d), lastCall.sparse, Len(lastCall.sparse))

\* C1: what the hybrid retriever returns is the 0.8 / 0.2 weighted fusion of the
\* dense top-5 and the BM25 top-5: every returned document is in one of the two
\* lists, none is returned twice, at most 10 are returned, and they are in
\* order of non-increasing fused score.
C1_HybridFusion ==
    (lastCall.op = "get_context" /\ lastCall.status = "returned") =>
        /\ Len(lastCall.dense) <= 5
        /\ Len(lastCall.sparse) <= 5
        /\ \A i \in DOMAIN C1Docs :
              \/ \E j \in DOMAIN lastCall.dense : lastCall.dense[j] = C1Docs[i]
              \/ \E j \in DOMAIN lastCall.sparse : lastCall.sparse[j] = C1Docs[i]
        /\ \A i, j \in DOMAIN C1Docs :
              i < j => Content(C1Docs[i]) # Content(C1Docs[j])
        /\ Len(C1Docs) <= 10
        /\ \A i, j \in DOMAIN C1Docs :
              i < j => C1Fused(C1Docs[i]) >= C1Fused(C1Docs[j])

\* a query whose two lists share nothing: ten documents come back
C1_Witness ==
    /\ lastCall.op = "get_context"
    /\ lastCall.status = "returned"
    /\ Len(lastCall.results) = 10

\* C2: two get_context calls with the same query return the same documents with
\* the same ranks, 1, 2, ... in order, whatever was asked and however often the
\* system was initialized or reset in between.
C2_Deterministic ==
    /\ (lastCall.op = "get_context" /\ lastCall.status = "returned") =>
            \A i \in DOMAIN lastCall.results : lastCall.results[i].rank = i
    /\ (/\ pinned.status = "returned"
        /\ lastCall.op = "get_context"
        /\ lastCall.status = "returned"
        /\ lastCall.query = pinned.query) =>
            lastCall.results = pinned.results

\* the pinned query asked again after reset_rag_system ran
C2_Witness ==
    /\ pinned.status = "returned"
    /\ lastCall.op = "get_context"
    /\ lastCall.status = "returned"
    /\ lastCall.fresh
    /\ lastCall.query = pinned.query
    /\ Len(lastCall.results) > 5

\* C3 (as claimed): no program outside safe_commands is started by a call, and
\* a command line whose base command is not in the set returns "not allowed"
\* with nothing executed.
C3_OnlyWhitelistedRun ==
    /\ shellCall.ran \subseteq safe_commands
    /\ LET words == Split(shellCmd, 1, "")
       IN  (shellCall.result # "pending" /\ words # <<>> /\ words[1] \notin safe_commands) =>
               (shellCall.result = "not allowed" /\ shellCall.ran = {})

\* the code matches a dangerous pattern, case ignored
C4Dangerous(code) ==
    LET low == [i \in DOMAIN code |-> IF code[i] = "EVAL" THEN "eval" ELSE code[i]]
        gap(i, j, allowed) == \A k \in (i + 1) .. (j - 1) : low[k] \in allowed
        any == CodePieces \ {"\n"}
        at(i, piece) == i \in DOMAIN low /\ low[i] = piece
    IN  \E i \in DOMAIN low :
          \/ at(i, "import") /\ \E j \in (i + 2) .. Len(low) :
                 /\ at(j, "os") /\ gap(i, j, {" ", "\n"})
                 /\ \E m \in (j + 1) .. Len(low) : at(m, "system") /\ gap(j, m, any)
          \/ at(i, "subprocess.")
          \/ at(i, "eval") /\ \E j \in (i + 1) .. Len(low) : at(j, "(") /\ gap(i, j, {" ", "\n"})
          \/ at(i, "exec") /\ \E j \in (i + 1) .. Len(low) : at(j, "(") /\ gap(i, j, {" ", "\n"})
          \/ at(i, "__import__")
          \/ at(i, "open") /\ \E j \in (i + 1) .. Len(low) :
                 /\ at(j, "w") /\ gap(i, j, any)
                 /\ \E m \in (j + 1) .. Len(low) : at(m, "root") /\ gap(j, m, any)
          \/ at(i, "rm") /\ \E j \in (i + 2) .. Len(low) : at(j, "-rf") /\ gap(i, j, {" ", "\n"})

\* C4: the safety check comes before execution: code matching a dangerous
\* pattern (case ignored) is never passed to the REPL and the call returns the
\* "potentially unsafe operation detected" text; code matching none is run
\* exactly once.
C4_CheckBeforeRun ==
    replCall.result # "pending" =>
        IF C4Dangerous(replCode)
        THEN replCall.runs = 0 /\ replCall.result = "potentially unsafe operation detected"
        ELSE replCall.runs = 1 /\ replCall.result # "potentially unsafe operation detected"

\* upper-case EVAL, blanks, then "(": refused without a run
C4_Witness ==
    /\ replCode = <<"EVAL", " ", "(">>
    /\ replCall.result = "potentially unsafe operation detected"
    /\ replCall.runs = 0

C10_ResetStartsNew ==
    prevThread # -1 =>
        /\ thread_id # prevThread
        /\ \A i \in DOMAIN get_conversation_history(thread_id) :
              get_conversation_history(thread_id)[i].req > resetAt
        /\ \A t \in ThreadIds : \A i \in DOMAIN sweHistory[t] :
              sweHistory[t][i].req > resetAt =>
                  (t = thread_id /\ sweHistory[t][i].tid = thread_id)
        /\ pending # NoPending => pending.tid = thread_id

\* messages were exchanged before the reset and again after it
C10_Witness ==
    /\ prevThread # -1
    /\ Len(sweHistory[prevThread]) > 0
    /\ Len(sweHistory[thread_id]) > 0
    /\ swePc = "prompt"

\* C5 as stated: a failure of a third-party call (LLM completion, retrieval or
\* embedding, SMTP, speech) is caught and answered by a fallback; no tool,
\* graph node or request loop lets the exception out.
C5_FailuresHandled ==
    /\ lastCall.status # "raised"
    /\ voicePc # "crashed"
    /\ chatCall.outcome # "raised"
    /\ ~mailCall.raised

\* C5, as the code has it: call_model and send_consultation_confirmation
\* catch the failure and answer with a fallback message; rag and get_context
\* print it and raise it again; main() of the voice agent does not catch a
\* failure of transcription, of graph.invoke or of speech synthesis, which
\* ends its loop.
C5_FailuresByHandler ==
    /\ chatCall.failed => /\ chatCall.outcome = "fallback"
                          /\ chatCall.response = FallbackMessage
    /\ mailCall.failed => mailCall.result = FailedText /\ ~mailCall.raised
    /\ lastCall.failed => lastCall.status = "raised"
    /\ voiceCall.failed => voicePc = "crashed"
    /\ lastCall.status = "raised" => lastCall.failed
    /\ voicePc = "crashed" => voiceCall.failed

\* the completion failed on the first turn and the node answered with the fallback
C5_Witness ==
    /\ chatCall.failed
    /\ chatCall.outcome = "fallback"
    /\ chatMessages = <<UserMessage, FallbackMessage>>

\* out[j+1 .. k] are all ToolMessages
C7ToolRun(out, j, k) == \A l \in (j + 1) .. k : out[l].type = "tool"

\* out[i ..] can be read off in[j ..] in order
RECURSIVE C7Subsequence(_, _, _, _)
C7Subsequence(out, i, in, j) ==
    IF i > Len(out) THEN TRUE
    ELSE IF j > Len(in) THEN FALSE
    ELSE IF out[i] = in[j] THEN C7Subsequence(out, i + 1, in, j + 1)
    ELSE C7Subsequence(out, i, in, j + 1)

\* C7 as stated: in the output of filter_messages_for_openai every ToolMessage
\* belongs to a contiguous run directly after an AIMessage with tool calls,
\* every AIMessage with tool calls is directly followed by the tool results
\* answering its calls, and the output is a subsequence of the input.
C7_ValidTranscript ==
    filterOut # "pending" =>
        /\ \A k \in DOMAIN filterOut :
             filterOut[k].type = "tool" =>
                \E j \in 1 .. (k - 1) :
                    /\ filterOut[j].type = "ai"
                    /\ filterOut[j].calls # {}
                    /\ C7ToolRun(filterOut, j, k)
        /\ \A j \in DOMAIN filterOut :
             \A c \in filterOut[j].calls :
                \E k \in (j + 1) .. Len(filterOut) :
                    /\ filterOut[k].id = c
                    /\ C7ToolRun(filterOut, j, k)
        /\ C7Subsequence(filterOut, 1, filterIn, 1)

\* C8: send_consultation_confirmation never raises; it returns the
\* "Confirmation email sent to <email>" message exactly when the SMTP session
\* (connect, STARTTLS, login, send_message, QUIT) ran without an exception;
\* with EMAIL_USER or EMAIL_PASSWORD unset it returns the configuration
\* message and opens no connection; any other failure gives the "Failed to
\* send confirmation email" message.
C8_ResultReports ==
    mailCall.result # "none" =>
        /\ ~mailCall.raised
        /\ mailCall.result \in {SentText(mailCall.email), ConfigMissingText, FailedText}
        /\ mailCall.result = SentText(mailCall.email)
              <=> (mailCall.userSet /\ mailCall.passwordSet /\ mailCall.failAt = "none")
        /\ mailCall.result = SentText(mailCall.email)
              => outbox # <<>> /\ outbox[Len(outbox)] = mailCall.email
        /\ (~mailCall.userSet \/ ~mailCall.passwordSet)
              => /\ mailCall.result = ConfigMissingText
                 /\ smtpSessions = mailCall.sessionsBefore
        /\ (mailCall.userSet /\ mailCall.passwordSet /\ mailCall.failAt # "none")
              => mailCall.result = FailedText

\* two mails in a row were accepted and reported as sent
C8_Witness ==
    /\ mailCall.result = SentText("bob@example.com")
    /\ outbox = <<"ann@example.com", "bob@example.com">>

\* the save fails: no scoring to read, a value sqlite cannot bind, or the
\* database refuses the INSERT
C9SaveFails(call) ==
    \/ call.llm = PyNone
    \/ call.contact = "{name: [1]}"
    \/ ~call.dbOk

\* C9: save_lead_to_crm never raises; on success exactly one row is added to
\* the leads table and the text reports the lead quality and the interest
\* level of that row; when contact_info_json is no JSON object or the save
\* fails, the text is "Error saving lead to CRM" and the table is unchanged.
C9_SaveOrError ==
    crmCall.done =>
        /\ ~crmCall.raised
        /\ crmCall.result.text \in {SavedText(LeadScoring("", 0, "", "")).text, ErrorText.text}
        /\ crmCall.result.text = "Lead saved to CRM successfully" =>
              /\ Len(leads) = Len(crmCall.before) + 1
              /\ SubSeq(leads, 1, Len(crmCall.before)) = crmCall.before
              /\ crmCall.result.quality = leads[Len(leads)].lead_quality
              /\ crmCall.result.interest = leads[Len(leads)].interest_level
        /\ (crmCall.contact \notin {"{}", "{ann}", "{bob}", "{name: [1]}"} \/ C9SaveFails(crmCall))
              => crmCall.result = ErrorText /\ leads = crmCall.before
        /\ crmCall.result = ErrorText => leads = crmCall.before
        /\ (crmCall.contact \in {"{}", "{ann}", "{bob}"} /\ ~C9SaveFails(crmCall))
              => crmCall.result.text = "Lead saved to CRM successfully"

\* the scoring LLM failed, the default scoring was saved as the second row
C9_Witness ==
    /\ crmCall.done
    /\ crmCall.result.text = "Lead saved to CRM successfully"
    /\ crmCall.llm = LlmError
    /\ Len(leads) = 2
    /\ leads[2].lead_quality = "warm"

\* C14 as stated: after save_lead returns, the row it inserted holds the
\* thread id, the contact fields (name, email, phone) and every field of the
\* scoring returned for the lead: lead_quality, interest_level,
\* readiness_to_buy and the reasoning.
C14_RowHoldsScoring ==
    (crmCall.done /\ crmCall.result.text = "Lead saved to CRM successfully") =>
        LET row == leads[Len(leads)]
            scoring == analyze_conversation(crmCall.llm)
        IN  /\ row.thread_id = "t1"
            /\ row.name = ContactGet(crmCall.contact, "name")
            /\ row.email = ContactGet(crmCall.contact, "email")
            /\ row.phone = ContactGet(crmCall.contact, "phone")
            /\ row.lead_quality = scoring.lead_quality
            /\ row.interest_level = scoring.interest_level
            /\ row.readiness_to_buy = scoring.readiness_to_buy
            /\ row.scoring_reasoning = scoring.reasoning

\* C11 as stated: the workflow routes from "conversation" to "save_crm" only
\* when the conversation holds an extract_contact_info result with a name
\* and an email and a send_consultation_confirmation result reporting that
\* the confirmation email was sent.
C11_SaveOnlyWhenBooked ==
    "save_crm" \in chatActive =>
        /\ \E i \in DOMAIN chatMessages :
              chatMessages[i] = ToolMessage("extract_contact_info", "contact")
        /\ \E i \in DOMAIN chatMessages :
              chatMessages[i] = ToolMessage("send_consultation_confirmation", "sent")

\* the send_consultation_confirmation results in the conversation
C12Confirmations ==
    Cardinality({i \in DOMAIN chatMessages :
                    /\ chatMessages[i].type = "tool"
                    /\ chatMessages[i].name = "send_consultation_confirmation"})

\* C12 as stated: over the user turns of one thread, the rows inserted by
\* save_crm never outnumber the send_consultation_confirmation results in the
\* conversation.
C12_OneLeadPerBooking ==
    program = "chat" => Len(leads) <= C12Confirmations

\* the superstep i of the turn ran the node
C13Ran(i, node) == i \in DOMAIN chatSteps /\ node \in chatSteps[i].nodes

\* C13: in every turn the tools node runs only directly after a conversation
\* step whose AI message has tool calls, every tools step is followed by a
\* conversation step, and a conversation step whose response has no tool
\* calls is the last conversation step of the turn.
C13_ToolLoop ==
    /\ \A i \in DOMAIN chatSteps :
          C13Ran(i, "tools") => C13Ran(i - 1, "conversation") /\ chatSteps[i - 1].calls
    /\ "tools" \in chatActive =>
          C13Ran(Len(chatSteps), "conversation") /\ chatSteps[Len(chatSteps)].calls
    /\ \A i \in DOMAIN chatSteps :
          C13Ran(i, "tools") =>
              IF i < Len(chatSteps) THEN C13Ran(i + 1, "conversation")
                                    ELSE "conversation" \in chatActive
    /\ \A i \in DOMAIN chatSteps :
          (C13Ran(i, "conversation") /\ ~chatSteps[i].calls) =>
              /\ \A j \in (i + 1) .. Len(chatSteps) : ~C13Ran(j, "conversation")
              /\ "conversation" \notin chatActive

\* a finished turn with two rounds of tools, the second next to save_crm
C13_Witness ==
    /\ chatActive = {}
    /\ Len(chatSteps) >= 5
    /\ C13Ran(2, "tools")
    /\ chatSteps[4].nodes = {"tools", "save_crm"}
    /\ C13Ran(5, "conversation")
    /\ ~chatSteps[5].calls

====
